---- MODULE Spec2Model ----
(***************************************************************************)
(* Model of the rollout collectors of skydome20/rl-model.                  *)
(*                                                                         *)
(*   src/ppo/atari/env_runner.py   MultiEnvRunner (the Image-Runner):      *)
(*        frame stack, run(), record(), get_performance()                  *)
(*   src/a2c/conti/train.py        the consumer of the Vector-Runner       *)
(*                                                                         *)
(* Arrays keep the code's axes, 1-based: mb_x[t][i] is row t (timestep),   *)
(* environment i.  An image is reduced to one pixel (img_height =          *)
(* img_width = 1), so stacked_obs[i] is the channel axis of environment i, *)
(* c_dim*n_stack long; np.roll along axis 3 and the channel slices act on  *)
(* every pixel position alike.  float32 quantities are small integers, on  *)
(* which float32 arithmetic is exact.                                      *)
(***************************************************************************)
EXTENDS Integers, Sequences, FiniteSets, TLC

(* ---------------- bounds of the model ---------------- *)
\* Constructor arguments: env.n_env, n_step, n_stack, c_dim.
n_env == 2
n_step == 2
n_stack == 3
c_dim == 2
\* run() calls per behaviour: of Spec, and of the long workload SpecLong.
MaxRuns == 2
LongRuns == 40
\* Period of an environment's termination script.
ScriptLen == 3
\* Largest pixel, reward and value the collaborators return.
MaxPixel == 3
MaxReward == 2
MaxValue == 2
\* Constructor arguments gamma and lamb of the runner under Spec and SpecLong
\* (the code accepts any float; integers keep the arithmetic exact and the
\* terms of the recursion apart).
RunnerGamma == 2
RunnerLamb == 3
\* Largest gamma and lambda drawn for the estimators applied on their own.
MaxGamma == 2
MaxLamb == 2

(* deque(maxlen=100) *)
BufMaxLen == 100

Env == 1..n_env
Steps == 1..n_step
StackLen == c_dim * n_stack
Channels == 1..StackLen

VARIABLES
  \* fields of MultiEnvRunner
  stacked_obs, dones, total_rewards, total_len, reward_buf, len_buf, gamma, lamb,
  \* locals of run()
  mb_obs, mb_actions, mb_values, mb_rewards, mb_dones, mb_neg_logprobs,
  actions, last_values, mb_advs, mb_returns,
  \* control: position in run(), number of run() calls, cap on them, last return value
  pc, runs, run_cap, ret,
  \* the environment vector and the policy (collaborators)
  env_script, env_clock, env_ep, env_t, pol_seed,
  \* history variables: episode of each stacked channel, collaborator calls of
  \* the current run(), done flags at the start of run(), pushes and running
  \* accumulators of the last record(), number of done flags recorded so far
  stacked_ep, calls, dones0, push_log, rec_trace, n_done_rec,
  \* history variables: number of env.reset calls so far, per environment the
  \* reward sum and step count of each episode env.step has ended (ep_log) and
  \* of the episode under way (ep_cur), and every push of every record()
  n_reset, ep_log, ep_cur, push_all,
  \* the estimators applied as functions to drawn inputs
  pf_pc, pf_in, pf_out

runner_vars == <<stacked_obs, dones, total_rewards, total_len, reward_buf, len_buf, gamma, lamb>>
local_vars == <<mb_obs, mb_actions, mb_values, mb_rewards, mb_dones, mb_neg_logprobs,
                actions, last_values, mb_advs, mb_returns>>
ctl_vars == <<pc, runs, run_cap, ret>>
env_vars == <<env_script, env_clock, env_ep, env_t, pol_seed>>
hist_vars == <<stacked_ep, calls, dones0, push_log, rec_trace, n_done_rec,
               n_reset, ep_log, ep_cur, push_all>>
pf_vars == <<pf_pc, pf_in, pf_out>>
vars == <<runner_vars, local_vars, ctl_vars, env_vars, hist_vars, pf_vars>>

(* ---------------- helpers ---------------- *)
B2I(b) == IF b THEN 1 ELSE 0

RECURSIVE SeqSum(_)
SeqSum(s) == IF Len(s) = 0 THEN 0 ELSE s[1] + SeqSum(Tail(s))

\* dtype=np.uint8
ToUint8(x) == x % 256

(* ---------------- the collaborators (spec.md section 6) ---------------- *)
\* Termination flags follow a per-environment script of period ScriptLen.
Scripts == [1..ScriptLen -> BOOLEAN]

EnvDone(i, c) == env_script[i][((c - 1) % ScriptLen) + 1]

\* The frame of environment i at step t of its episode ep: pixels 1..MaxPixel.
EnvFrame(i, ep, t) == [c \in 1..c_dim |-> 1 + ((i + ep + 2 * t + c) % MaxPixel)]

\* env.reset() -> observations
EnvResetRet == [i \in Env |-> EnvFrame(i, 1, 0)]

\* env.step(actions) -> observations, rewards, dones; a done environment has been
\* reset and returns the first frame of its next episode.
EnvStepRet(acts) ==
  LET c == env_clock + 1
      dn == [i \in Env |-> EnvDone(i, c)]
      ep == [i \in Env |-> IF dn[i] THEN env_ep[i] + 1 ELSE env_ep[i]]
      t == [i \in Env |-> IF dn[i] THEN 0 ELSE env_t[i] + 1]
  IN [obs |-> [i \in Env |-> EnvFrame(i, ep[i], t[i])],
      rewards |-> [i \in Env |-> (acts[i] + c + i) % (MaxReward + 1)],
      dones |-> dn,
      ep |-> ep,
      t |-> t]

\* policy.step(obs) -> actions, values, neg_logprobs
PolicyStepRet(obs) ==
  [actions |-> [i \in Env |-> (pol_seed + obs[i][StackLen] + i) % 2],
   values |-> [i \in Env |-> (pol_seed + SeqSum(obs[i]) + i) % (MaxValue + 1)],
   neg_logprobs |-> [i \in Env |-> 1 + ((obs[i][StackLen] + 2 * i) % 3)]]

\* policy.value_step(obs) -> values
ValueStepRet(obs) ==
  [i \in Env |-> (1 + pol_seed + SeqSum(obs[i]) + 2 * i) % (MaxValue + 1)]

(* ---------------- MultiEnvRunner: the frame stack ---------------- *)
\* Roll with the shift the other way: shift=+c_dim.
RollRight(buf) ==
  [i \in Env |-> [k \in Channels |-> buf[i][((k - 1 - c_dim) % StackLen) + 1]]]

\* np.roll(self.stacked_obs, shift=-self.c_dim, axis=3)
Roll(buf) ==
  [i \in Env |-> [k \in Channels |-> buf[i][((k - 1 + c_dim) % StackLen) + 1]]]

\* UpdateStackedObs without line 41: the new frame is never written.
UpdateStackedObsNoInsert(buf, obs) == Roll(buf)

\* update_stacked_obs(obs)
UpdateStackedObs(buf, obs) ==
  LET rolled == Roll(buf)
  IN [i \in Env |-> [k \in Channels |->
        IF k > StackLen - c_dim
          THEN ToUint8(obs[i][k - (StackLen - c_dim)])
          ELSE rolled[i][k]]]

\* ZeroDone with the zeroing left out.
ZeroDoneSkipped(buf, ds) == buf

\* for i, done in enumerate(self.dones): if done: stacked_obs[i] = stacked_obs[i] * 0
ZeroDone(buf, ds) ==
  [i \in Env |-> IF ds[i] THEN [k \in Channels |-> buf[i][k] * 0] ELSE buf[i]]

\* RecordedObs for rows that are views of self.stacked_obs: the in-place zeroing
\* of line 75 then reaches the row appended in this iteration.
RecordedObsAliased(mb, ds) ==
  [mb EXCEPT ![Len(mb)] = [i \in Env |->
     IF ds[i] THEN [k \in Channels |-> mb[Len(mb)][i][k] * 0] ELSE mb[Len(mb)][i]]]

\* mb_obs after lines 71-77 of an iteration in which env.step returned ds: its
\* rows are np.copy's of the buffer (line 63), so the writes of lines 75 and
\* 40-41 leave them alone.
RecordedObs(mb, ds) == mb

(* ---------------- MultiEnvRunner: the statistics ---------------- *)
\* DequeAppend for a deque made without maxlen.
DequeAppendUnbounded(q, x) == Append(q, x)

\* collections.deque(maxlen=100).append(x)
DequeAppend(q, x) ==
  IF Len(q) >= BufMaxLen THEN Append(Tail(q), x) ELSE Append(q, x)

\* RecordCells with the loops exchanged: for j in range(n_step): for i in range(n_env)
RecordCellsTimeMajor ==
  [k \in 1..(n_env * n_step) |-> <<((k - 1) % n_env) + 1, ((k - 1) \div n_env) + 1>>]

\* The cells <<i, j>> in the order of record()'s loops:
\* for i in range(n_env): for j in range(n_step)
RecordCells ==
  [k \in 1..(n_env * n_step) |-> <<((k - 1) \div n_step) + 1, ((k - 1) % n_step) + 1>>]

\* RecordCell counting a new episode's first step as step 0.
RecordCellLenFromZero(st, i, j, rewards, ds) ==
  IF ds[j][i]
    THEN [st EXCEPT
            !.reward_buf = DequeAppend(@, st.total_rewards[i]),
            !.len_buf = DequeAppend(@, st.total_len[i]),
            !.total_rewards[i] = rewards[j][i],
            !.total_len[i] = 0,
            !.push_log = Append(@, [env |-> i, t |-> j,
                                    r |-> st.total_rewards[i], l |-> st.total_len[i]]),
            !.rec_trace[i][j] = [total |-> rewards[j][i], len |-> 0]]
    ELSE [st EXCEPT
            !.total_rewards[i] = @ + rewards[j][i],
            !.total_len[i] = @ + 1,
            !.rec_trace[i][j] = [total |-> st.total_rewards[i] + rewards[j][i],
                                 len |-> st.total_len[i] + 1]]

\* RecordCell with a clean reset: the accumulators restart at zero on a done
\* flag and the cell's own reward and step are dropped.
RecordCellCleanReset(st, i, j, rewards, ds) ==
  IF ds[j][i]
    THEN [st EXCEPT
            !.reward_buf = DequeAppend(@, st.total_rewards[i]),
            !.len_buf = DequeAppend(@, st.total_len[i]),
            !.total_rewards[i] = 0,
            !.total_len[i] = 0,
            !.push_log = Append(@, [env |-> i, t |-> j,
                                    r |-> st.total_rewards[i], l |-> st.total_len[i]]),
            !.rec_trace[i][j] = [total |-> 0, len |-> 0]]
    ELSE [st EXCEPT
            !.total_rewards[i] = @ + rewards[j][i],
            !.total_len[i] = @ + 1,
            !.rec_trace[i][j] = [total |-> st.total_rewards[i] + rewards[j][i],
                                 len |-> st.total_len[i] + 1]]

\* The body of record()'s inner loop for environment i, row j.
RecordCell(st, i, j, rewards, ds) ==
  IF ds[j][i]
    THEN [st EXCEPT
            !.reward_buf = DequeAppend(@, st.total_rewards[i]),
            !.len_buf = DequeAppend(@, st.total_len[i]),
            !.total_rewards[i] = rewards[j][i],
            !.total_len[i] = 1,
            !.push_log = Append(@, [env |-> i, t |-> j,
                                    r |-> st.total_rewards[i], l |-> st.total_len[i]]),
            !.rec_trace[i][j] = [total |-> rewards[j][i], len |-> 1]]
    ELSE [st EXCEPT
            !.total_rewards[i] = @ + rewards[j][i],
            !.total_len[i] = @ + 1,
            !.rec_trace[i][j] = [total |-> st.total_rewards[i] + rewards[j][i],
                                 len |-> st.total_len[i] + 1]]

RECURSIVE RecordFrom(_, _, _, _)
RecordFrom(st, k, rewards, ds) ==
  IF k > Len(RecordCells)
    THEN st
    ELSE RecordFrom(RecordCell(st, RecordCells[k][1], RecordCells[k][2], rewards, ds),
                    k + 1, rewards, ds)

\* record() starting every batch from zeroed accumulators.
RecordFreshTotals(tr, tl, rb, lb, rewards, ds) ==
  RecordFrom([total_rewards |-> [i \in Env |-> 0], total_len |-> [i \in Env |-> 0],
              reward_buf |-> rb, len_buf |-> lb,
              push_log |-> <<>>,
              rec_trace |-> [i \in Env |-> [j \in 0..n_step |->
                               [total |-> 0, len |-> 0]]]],
             1, rewards, ds)

\* record(mb_rewards, mb_dones): the new accumulators and windows, with the
\* pushes in the order they were made (push_log) and each environment's
\* accumulators after each row (rec_trace; row 0 is the state before the call).
Record(tr, tl, rb, lb, rewards, ds) ==
  RecordFrom([total_rewards |-> tr, total_len |-> tl, reward_buf |-> rb, len_buf |-> lb,
              push_log |-> <<>>,
              rec_trace |-> [i \in Env |-> [j \in 0..n_step |->
                               [total |-> tr[i], len |-> tl[i]]]]],
             1, rewards, ds)

\* A mean as the fraction num/den; get_performance()'s literal 0 is 0/1.
Zero == [num |-> 0, den |-> 1]

\* np.mean(buf)
Mean(buf) == [num |-> SeqSum(buf), den |-> Len(buf)]

\* MeanOrZero without the test for an empty window: np.mean of nothing is nan (0/0).
MeanUnguarded(buf) == Mean(buf)

\* get_performance(): one window's figure
MeanOrZero(buf) == IF Len(buf) = 0 THEN Zero ELSE Mean(buf)

(* ---------------- MultiEnvRunner: advantages and layout ---------------- *)
\* GaeLoop with next_nonterminal left out of the accumulation term.
RECURSIVE GaeLoopUnmasked(_, _, _, _, _, _, _, _, _, _, _)
GaeLoopUnmasked(E, t, last_gae_lam, advs, rewards, values, ds, cur_dones, lv, g, l) ==
  IF t = 0
    THEN advs
    ELSE LET n == Len(rewards)
             next_nonterminal == [i \in E |->
                IF t = n THEN 1 - B2I(cur_dones[i]) ELSE 1 - B2I(ds[t + 1][i])]
             next_values == [i \in E |-> IF t = n THEN lv[i] ELSE values[t + 1][i]]
             delta == [i \in E |->
                rewards[t][i] + g * next_values[i] * next_nonterminal[i] - values[t][i]]
             a == [i \in E |-> delta[i] + g * l * last_gae_lam[i]]
         IN GaeLoopUnmasked(E, t - 1, a, [advs EXCEPT ![t] = a],
                            rewards, values, ds, cur_dones, lv, g, l)

\* The backward loop of run(), step 3, over the environments E: rows t..1.
RECURSIVE GaeLoop(_, _, _, _, _, _, _, _, _, _, _)
GaeLoop(E, t, last_gae_lam, advs, rewards, values, ds, cur_dones, lv, g, l) ==
  IF t = 0
    THEN advs
    ELSE LET n == Len(rewards)
             next_nonterminal == [i \in E |->
                IF t = n THEN 1 - B2I(cur_dones[i]) ELSE 1 - B2I(ds[t + 1][i])]
             next_values == [i \in E |-> IF t = n THEN lv[i] ELSE values[t + 1][i]]
             delta == [i \in E |->
                rewards[t][i] + g * next_values[i] * next_nonterminal[i] - values[t][i]]
             a == [i \in E |->
                delta[i] + g * l * next_nonterminal[i] * last_gae_lam[i]]
         IN GaeLoop(E, t - 1, a, [advs EXCEPT ![t] = a],
                    rewards, values, ds, cur_dones, lv, g, l)

\* GAE with the last row's next_nonterminal read from the recorded flags
\* (mb_dones[-1]) instead of self.dones.
GAERecordedLast(E, rewards, values, ds, cur_dones, lv, g, l) ==
  GaeLoop(E, Len(rewards), [i \in E |-> 0],
          [t \in 1..Len(rewards) |-> [i \in E |-> 0]],
          rewards, values, ds, ds[Len(ds)], lv, g, l)

\* GAE with every done flag read as False: no episode boundary cuts the sum.
GAEIgnoreDones(E, rewards, values, ds, cur_dones, lv, g, l) ==
  GaeLoop(E, Len(rewards), [i \in E |-> 0],
          [t \in 1..Len(rewards) |-> [i \in E |-> 0]],
          rewards, values, [t \in 1..Len(ds) |-> [i \in E |-> FALSE]],
          [i \in E |-> FALSE], lv, g, l)

\* mb_advs of run(): np.zeros_like(mb_rewards), last_gae_lam = 0, then the loop.
GAE(E, rewards, values, ds, cur_dones, lv, g, l) ==
  GaeLoop(E, Len(rewards), [i \in E |-> 0],
          [t \in 1..Len(rewards) |-> [i \in E |-> 0]],
          rewards, values, ds, cur_dones, lv, g, l)

\* mb_returns = mb_advs + mb_values
Returns(E, advs, values) ==
  [t \in 1..Len(advs) |-> [i \in E |-> advs[t][i] + values[t][i]]]

\* arr.swapaxes(0, 1)
SwapAxes(arr) == [i \in Env |-> [t \in 1..Len(arr) |-> arr[t][i]]]

\* .flatten() / .reshape(n_env*n_step, ...): the rows one after another
RECURSIVE FlattenRows(_, _)
FlattenRows(a, i) == IF i > Len(a) THEN <<>> ELSE a[i] \o FlattenRows(a, i + 1)

\* Flatten without the swapaxes: time-major.
FlattenTimeMajor(arr) == FlattenRows(arr, 1)

\* arr.swapaxes(0, 1).flatten()
Flatten(arr) == FlattenRows(SwapAxes(arr), 1)

(* ---------------- construction ---------------- *)
NoRet == [fn |-> "none", val |-> <<>>]

ZeroStack == [i \in Env |-> [k \in Channels |-> 0]]

\* The episode tag of a frame: the same tag on each of its c_dim channels.
FrameTag(ep) == [i \in Env |-> [c \in 1..c_dim |-> ep[i]]]

\* MultiEnvRunner.__init__
InitRunner ==
  /\ stacked_obs = UpdateStackedObs(ZeroStack, EnvResetRet)
  /\ dones = [i \in Env |-> FALSE]
  /\ total_rewards = [i \in Env |-> 0]
  /\ total_len = [i \in Env |-> 0]
  /\ reward_buf = <<>>
  /\ len_buf = <<>>
  /\ gamma = RunnerGamma
  /\ lamb = RunnerLamb
  /\ mb_obs = <<>> /\ mb_actions = <<>> /\ mb_values = <<>> /\ mb_rewards = <<>>
  /\ mb_dones = <<>> /\ mb_neg_logprobs = <<>>
  /\ actions = <<>> /\ last_values = <<>> /\ mb_advs = <<>> /\ mb_returns = <<>>
  /\ pc = "idle" /\ runs = 0 /\ ret = NoRet
  /\ env_clock = 0
  /\ env_ep = [i \in Env |-> 1]
  /\ env_t = [i \in Env |-> 0]
  /\ stacked_ep = UpdateStackedObs(ZeroStack, FrameTag([i \in Env |-> 1]))
  /\ calls = <<[fn |-> "env.reset", arg |-> <<>>, ret |-> EnvResetRet]>>
  /\ dones0 = [i \in Env |-> FALSE]
  /\ push_log = <<>>
  /\ rec_trace = <<>>
  /\ n_done_rec = 0
  /\ n_reset = 1
  /\ ep_log = [i \in Env |-> <<>>]
  /\ ep_cur = [i \in Env |-> [r |-> 0, l |-> 0]]
  /\ push_all = <<>>

PfIdle == pf_pc = "off" /\ pf_in = <<>> /\ pf_out = <<>>

Init ==
  /\ InitRunner
  /\ env_script \in [Env -> Scripts]
  /\ pol_seed \in 0..1
  /\ run_cap = MaxRuns
  /\ PfIdle

(* ---------------- run() ---------------- *)
\* run() beginning with cleared done flags instead of the stored ones.
RunCallFreshDones ==
  /\ pc = "idle"
  /\ runs < run_cap
  /\ pc' = "policy"
  /\ runs' = runs + 1
  /\ ret' = NoRet
  /\ mb_obs' = <<>> /\ mb_actions' = <<>> /\ mb_values' = <<>> /\ mb_rewards' = <<>>
  /\ mb_dones' = <<>> /\ mb_neg_logprobs' = <<>>
  /\ actions' = <<>> /\ last_values' = <<>> /\ mb_advs' = <<>> /\ mb_returns' = <<>>
  /\ calls' = <<>>
  /\ dones' = [i \in Env |-> FALSE]
  /\ dones0' = dones
  /\ push_log' = <<>>
  /\ rec_trace' = <<>>
  /\ UNCHANGED <<stacked_obs, total_rewards, total_len, reward_buf, len_buf, gamma, lamb,
                 run_cap, env_vars, stacked_ep, n_done_rec,
                 n_reset, ep_log, ep_cur, push_all, pf_vars>>

\* run(policy) is called: lines 47-53
RunCall ==
  /\ pc = "idle"
  /\ runs < run_cap
  /\ pc' = "policy"
  /\ runs' = runs + 1
  /\ ret' = NoRet
  /\ mb_obs' = <<>> /\ mb_actions' = <<>> /\ mb_values' = <<>> /\ mb_rewards' = <<>>
  /\ mb_dones' = <<>> /\ mb_neg_logprobs' = <<>>
  /\ actions' = <<>> /\ last_values' = <<>> /\ mb_advs' = <<>> /\ mb_returns' = <<>>
  /\ calls' = <<>>
  /\ dones0' = dones
  /\ push_log' = <<>>
  /\ rec_trace' = <<>>
  /\ UNCHANGED <<runner_vars, run_cap, env_vars, stacked_ep, n_done_rec,
                 n_reset, ep_log, ep_cur, push_all, pf_vars>>

\* The first half of a loop iteration: lines 62-67
PolicyStep ==
  /\ pc = "policy"
  /\ LET r == PolicyStepRet(stacked_obs)
     IN /\ mb_obs' = Append(mb_obs, stacked_obs)
        /\ mb_actions' = Append(mb_actions, r.actions)
        /\ mb_values' = Append(mb_values, r.values)
        /\ mb_neg_logprobs' = Append(mb_neg_logprobs, r.neg_logprobs)
        /\ mb_dones' = Append(mb_dones, dones)
        /\ actions' = r.actions
        /\ calls' = Append(calls, [fn |-> "policy.step", arg |-> stacked_obs, ret |-> r,
                                   ep |-> env_ep, obs_ep |-> stacked_ep])
  /\ n_done_rec' = n_done_rec + Cardinality({i \in Env : dones[i]})
  /\ pc' = "env"
  /\ UNCHANGED <<runner_vars, mb_rewards, last_values, mb_advs, mb_returns,
                 runs, run_cap, ret, env_vars, stacked_ep, dones0, push_log, rec_trace,
                 n_reset, ep_log, ep_cur, push_all, pf_vars>>

\* The second half of a loop iteration: lines 71-77
EnvStep ==
  /\ pc = "env"
  /\ LET r == EnvStepRet(actions)
     IN /\ dones' = r.dones
        /\ mb_rewards' = Append(mb_rewards, r.rewards)
        /\ mb_obs' = RecordedObs(mb_obs, r.dones)
        /\ stacked_obs' = UpdateStackedObs(ZeroDone(stacked_obs, r.dones), r.obs)
        /\ stacked_ep' = UpdateStackedObs(ZeroDone(stacked_ep, r.dones), FrameTag(r.ep))
        /\ env_clock' = env_clock + 1
        /\ ep_log' = [i \in Env |->
                       IF r.dones[i]
                         THEN Append(ep_log[i], [r |-> ep_cur[i].r + r.rewards[i],
                                                 l |-> ep_cur[i].l + 1])
                         ELSE ep_log[i]]
        /\ ep_cur' = [i \in Env |->
                       IF r.dones[i]
                         THEN [r |-> 0, l |-> 0]
                         ELSE [r |-> ep_cur[i].r + r.rewards[i], l |-> ep_cur[i].l + 1]]
        /\ env_ep' = r.ep
        /\ env_t' = r.t
        /\ calls' = Append(calls, [fn |-> "env.step", arg |-> actions,
                                   ret |-> [obs |-> r.obs, rewards |-> r.rewards,
                                            dones |-> r.dones]])
  /\ pc' = IF Len(mb_rewards) + 1 < n_step THEN "policy" ELSE "finish"
  /\ UNCHANGED <<total_rewards, total_len, reward_buf, len_buf, gamma, lamb,
                 mb_actions, mb_values, mb_dones, mb_neg_logprobs,
                 actions, last_values, mb_advs, mb_returns,
                 runs, run_cap, ret, env_script, pol_seed, dones0, push_log, rec_trace,
                 n_done_rec, n_reset, push_all,
                 pf_vars>>

\* After the loop: lines 80-127
RunReturn ==
  /\ pc = "finish"
  /\ LET lv == ValueStepRet(stacked_obs)
         rec == Record(total_rewards, total_len, reward_buf, len_buf, mb_rewards, mb_dones)
         advs == GAE(Env, mb_rewards, mb_values, mb_dones, dones, lv, gamma, lamb)
         rets == Returns(Env, advs, mb_values)
     IN /\ last_values' = lv
        /\ calls' = Append(calls, [fn |-> "policy.value_step", arg |-> stacked_obs,
                                   ret |-> lv])
        /\ total_rewards' = rec.total_rewards
        /\ total_len' = rec.total_len
        /\ reward_buf' = rec.reward_buf
        /\ len_buf' = rec.len_buf
        /\ push_log' = rec.push_log
        /\ push_all' = push_all \o rec.push_log
        /\ rec_trace' = rec.rec_trace
        /\ mb_advs' = advs
        /\ mb_returns' = rets
        /\ ret' = [fn |-> "run",
                   val |-> <<Flatten(mb_obs), Flatten(mb_actions), Flatten(mb_neg_logprobs),
                             Flatten(mb_values), Flatten(rets)>>]
  /\ pc' = "idle"
  /\ UNCHANGED <<stacked_obs, dones, gamma, lamb,
                 mb_obs, mb_actions, mb_values, mb_rewards, mb_dones, mb_neg_logprobs,
                 actions, runs, run_cap, env_vars, stacked_ep, dones0, n_done_rec,
                 n_reset, ep_log, ep_cur, pf_vars>>

\* get_performance(): lines 149-160
GetPerformance ==
  /\ pc = "idle"
  /\ ret' = [fn |-> "get_performance",
             val |-> <<MeanOrZero(reward_buf), MeanOrZero(len_buf)>>]
  /\ UNCHANGED <<runner_vars, local_vars, pc, runs, run_cap, env_vars, hist_vars, pf_vars>>

Next ==
  \/ RunCall
  \/ PolicyStep
  \/ EnvStep
  \/ RunReturn
  \/ GetPerformance

Spec == Init /\ [][Next]_vars

(* ---------------- a long workload ---------------- *)
\* Scripts that end an episode at all steps of a period but at most one.
LongScripts == {sc \in Scripts : Cardinality({k \in 1..ScriptLen : ~sc[k]}) <= 1}

InitLong ==
  /\ InitRunner
  /\ env_script \in [Env -> LongScripts]
  /\ pol_seed = 0
  /\ run_cap = LongRuns
  /\ PfIdle

SpecLong == InitLong /\ [][Next]_vars

(* ---------------- the estimators on drawn inputs ---------------- *)
\* One environment's column of a batch, as the arrays of run() with n_env = 1.
Col(E, f) == [t \in 1..n_step |-> [i \in E |-> f[t]]]

One == {1}

InitOff ==
  /\ InitRunner
  /\ env_script = [i \in Env |-> [k \in 1..ScriptLen |-> FALSE]]
  /\ pol_seed = 0
  /\ run_cap = 0

GaeInputs ==
  [rewards : [1..n_step -> 0..1], values : [1..n_step -> {0, MaxValue}],
   dones : [1..n_step -> BOOLEAN], cur_done : BOOLEAN, last_value : {0, MaxValue},
   g : 0..MaxGamma, l : 0..MaxLamb]

InitGAE ==
  /\ InitOff
  /\ pf_pc = "gae_in"
  /\ pf_in \in GaeInputs
  /\ pf_out = <<>>

\* Step 3 of run() on the drawn column: lines 101-116
ApplyGAE ==
  /\ pf_pc = "gae_in"
  /\ LET advs == GAE(One, Col(One, pf_in.rewards), Col(One, pf_in.values),
                     Col(One, pf_in.dones), [i \in One |-> pf_in.cur_done],
                     [i \in One |-> pf_in.last_value], pf_in.g, pf_in.l)
     IN pf_out' = [advs |-> advs,
                   returns |-> Returns(One, advs, Col(One, pf_in.values))]
  /\ pf_pc' = "gae_out"
  /\ UNCHANGED <<runner_vars, local_vars, ctl_vars, env_vars, hist_vars, pf_in>>

NextGAE == ApplyGAE

SpecGAE == InitGAE /\ [][NextGAE]_vars

\* DiscountedReturn with the discount factor left out.
DiscountedReturnUndiscounted(rewards, ds, final_done, lv, g, t) ==
  LET RECURSIVE R(_)
      R(u) == IF u > Len(rewards)
                THEN lv * (1 - B2I(final_done))
                ELSE rewards[u] + R(u + 1) * (1 - B2I(ds[u]))
  IN R(t)

\* The Vector-Runner's discounted return of row t (spec.md 4.1, step 3): from
\* the bootstrap value, masked to zero where the final step was terminal,
\* return[t] = reward[t] + gamma * return[t+1] * (1 - done[t]) backwards.
DiscountedReturn(rewards, ds, final_done, lv, g, t) ==
  LET RECURSIVE R(_)
      R(u) == IF u > Len(rewards)
                THEN lv * (1 - B2I(final_done))
                ELSE rewards[u] + g * R(u + 1) * (1 - B2I(ds[u]))
  IN R(t)

\* mb_advs = mb_discount_returns - mb_values
TrainAdvs(returns, values) == [k \in 1..Len(returns) |-> returns[k] - values[k]]

VecInputs ==
  [rewards : [1..n_step -> 0..MaxReward], values : [1..n_step -> {0, MaxValue}],
   dones : [1..n_step -> BOOLEAN], final_done : BOOLEAN, last_value : {0, MaxValue},
   g : 0..MaxGamma]

InitVec ==
  /\ InitOff
  /\ pf_pc = "vec_in"
  /\ pf_in \in VecInputs
  /\ pf_out = <<>>

\* The training loop's use of the Vector-Runner: train.py lines 143-144
ApplyVec ==
  /\ pf_pc = "vec_in"
  /\ LET returns == [t \in 1..n_step |->
                       DiscountedReturn(pf_in.rewards, pf_in.dones, pf_in.final_done,
                                        pf_in.last_value, pf_in.g, t)]
     IN pf_out' = [returns |-> returns, advs |-> TrainAdvs(returns, pf_in.values)]
  /\ pf_pc' = "vec_out"
  /\ UNCHANGED <<runner_vars, local_vars, ctl_vars, env_vars, hist_vars, pf_in>>

NextVec == ApplyVec

SpecVec == InitVec /\ [][NextVec]_vars

(* ======================= the claims ======================= *)
\* The collaborator calls of row t of the current run().
PolicyCall(t) == calls[2 * t - 1]
EnvCall(t) == calls[2 * t]

LastFrameBase == (n_stack - 1) * c_dim

\* Every recorded stacked observation holds only frames of the episode the
\* environment was in when it was recorded; a channel without a frame is zero.
NoStaleFrame ==
  \A t \in 1..Len(mb_obs) : \A i \in Env : \A k \in Channels :
    /\ PolicyCall(t).obs_ep[i][k] \in {0, PolicyCall(t).ep[i]}
    /\ PolicyCall(t).obs_ep[i][k] = 0 => mb_obs[t][i][k] = 0

\* What one env.step iteration does to the stack of environment i.
StackZeroedOrShifted(i) ==
  LET frame == calls'[Len(calls')].ret.obs[i]
  IN /\ \A c \in 1..c_dim : stacked_obs'[i][LastFrameBase + c] = frame[c]
     /\ dones'[i] => \A k \in 1..LastFrameBase : stacked_obs'[i][k] = 0
     /\ ~dones'[i] => \A k \in 1..LastFrameBase : stacked_obs'[i][k] = stacked_obs[i][k + c_dim]

\* C1: when env.step reports done for environment i, the stacked observation
\* of i used and recorded at the next step has its first (n_stack-1)*c_dim
\* channels zero and its last c_dim channels equal to the returned frame; an
\* environment not reported done has its stack shifted and appended only; the
\* buffer changes nowhere else, the next policy.step is given and records it,
\* and no recorded stacked observation holds a frame of an earlier episode.
C1_FrameStackZeroing ==
  [][ /\ (pc = "env") => \A i \in Env : StackZeroedOrShifted(i)
      /\ (pc # "env") => stacked_obs' = stacked_obs
      /\ (pc = "policy") =>
            /\ mb_obs'[Len(mb_obs')] = stacked_obs
            /\ calls'[Len(calls')].arg = stacked_obs
      /\ NoStaleFrame' ]_vars

\* C1 witness: in a 2nd or later row, one environment was reported done by the
\* previous env.step and its recorded stack is zero before the last frame,
\* while another was not and its recorded stack holds only frames.
C1_Witness ==
  \E t \in 2..Len(mb_obs) : \E i, j \in Env :
    /\ EnvCall(t - 1).ret.dones[i]
    /\ ~EnvCall(t - 1).ret.dones[j]
    /\ \A k \in 1..LastFrameBase : mb_obs[t][i][k] = 0
    /\ \A k \in Channels : mb_obs[t][j][k] # 0
    /\ \A c \in 1..c_dim : mb_obs[t][i][LastFrameBase + c] = EnvCall(t - 1).ret.obs[i][c]

\* Rows 1..Len(mb_obs): observation, action and value are those of the
\* policy.step of that row, whose action the env.step of the row was given.
RowsBeforeAction ==
  \A t \in 1..Len(mb_obs) :
    /\ PolicyCall(t).fn = "policy.step"
    /\ mb_obs[t] = PolicyCall(t).arg
    /\ mb_actions[t] = PolicyCall(t).ret.actions
    /\ mb_values[t] = PolicyCall(t).ret.values
    /\ t <= Len(mb_rewards) =>
          /\ EnvCall(t).fn = "env.step"
          /\ EnvCall(t).arg = mb_actions[t]
          /\ mb_rewards[t] = EnvCall(t).ret.rewards

\* C2 (as claimed): at every row t the recorded observation, action and value
\* are those from before the action of step t, and the recorded reward and the
\* recorded done flag are those env.step returned for the action of step t.
C2_AsClaimed ==
  /\ RowsBeforeAction
  /\ \A t \in 1..Len(mb_rewards) : mb_dones[t] = EnvCall(t).ret.dones

\* C2 (amended): as claimed for observation, action, value and reward; the
\* recorded done flag of row t is the flag in force before the action of step
\* t: the one env.step returned for step t-1, and for the first row the
\* runner's flags at the start of run().
C2_RolloutAlignment ==
  /\ RowsBeforeAction
  /\ \A t \in 1..Len(mb_dones) :
        mb_dones[t] = IF t = 1 THEN dones0 ELSE EnvCall(t - 1).ret.dones

\* C2 witness: a full batch in which some environment's flag changes from one
\* env.step to the next, so the two readings of the done row differ.
C2_Witness ==
  /\ Len(mb_rewards) = n_step
  /\ \E t \in 2..n_step : \E i \in Env :
        /\ EnvCall(t - 1).ret.dones[i] # EnvCall(t).ret.dones[i]
        /\ mb_dones[t][i] = EnvCall(t - 1).ret.dones[i]
        /\ mb_rewards[t][i] = EnvCall(t).ret.rewards[i]

FlatIndex(i, t) == (i - 1) * n_step + t

\* C3: each of the five arrays run() returns has leading dimension
\* n_env*n_step and holds the entry of environment i, timestep t at flat index
\* i*n_step + t (here 1-based: (i-1)*n_step + t), the same mapping for all five.
C3_OutputLayout ==
  ret.fn = "run" =>
    /\ \A a \in 1..5 : Len(ret.val[a]) = n_env * n_step
    /\ \A i \in Env : \A t \in Steps :
          /\ ret.val[1][FlatIndex(i, t)] = mb_obs[t][i]
          /\ ret.val[2][FlatIndex(i, t)] = mb_actions[t][i]
          /\ ret.val[3][FlatIndex(i, t)] = mb_neg_logprobs[t][i]
          /\ ret.val[4][FlatIndex(i, t)] = mb_values[t][i]
          /\ ret.val[5][FlatIndex(i, t)] = mb_returns[t][i]

\* C3 witness: a returned batch in which the entries of (environment 1, last
\* row) and (last environment, row 1) differ in every array.
C3_Witness ==
  /\ ret.fn = "run"
  /\ mb_obs[n_step][1] # mb_obs[1][n_env]
  /\ mb_actions[n_step][1] # mb_actions[1][n_env]
  /\ mb_neg_logprobs[n_step][1] # mb_neg_logprobs[1][n_env]
  /\ mb_values[n_step][1] # mb_values[1][n_env]
  /\ mb_returns[n_step][1] # mb_returns[1][n_env]

\* The next_nonterminal, next_value and next advantage the claim names for row t.
C4NextNonterminal(t, i) ==
  IF t = n_step THEN 1 - B2I(EnvCall(n_step).ret.dones[i]) ELSE 1 - B2I(mb_dones[t + 1][i])
C4NextValue(t, i) ==
  IF t = n_step THEN calls[2 * n_step + 1].ret[i] ELSE mb_values[t + 1][i]
C4NextAdv(t, i) ==
  IF t = n_step THEN 0 ELSE mb_advs[t + 1][i]

\* C4: after run(), for every environment and row t, delta[t] = reward[t] +
\* gamma*next_value*next_nonterminal - value[t], advantage[t] = delta[t] +
\* gamma*lambda*next_nonterminal*advantage[t+1] with advantage[n_step] = 0, and
\* return[t] = advantage[t] + value[t]; for the last row next_nonterminal is 1
\* minus the flag of the run's last env.step and next_value is
\* policy.value_step of the final stacked observation, for earlier rows they
\* are taken from the recorded row t+1.
C4_GAE ==
  Len(mb_advs) = n_step =>
    /\ calls[2 * n_step + 1].fn = "policy.value_step"
    /\ calls[2 * n_step + 1].arg = stacked_obs
    /\ \A i \in Env : \A t \in Steps :
          LET delta == mb_rewards[t][i]
                         + gamma * C4NextValue(t, i) * C4NextNonterminal(t, i)
                         - mb_values[t][i]
          IN /\ mb_advs[t][i] =
                  delta + gamma * lamb * C4NextNonterminal(t, i) * C4NextAdv(t, i)
             /\ mb_returns[t][i] = mb_advs[t][i] + mb_values[t][i]

\* C4 witness: a finished run() whose last env.step reported done for one
\* environment and not for another, with a nonzero bootstrap value for both
\* and a done flag recorded in a row after the first.
C4_Witness ==
  /\ Len(mb_advs) = n_step
  /\ \E i, j \in Env :
        /\ dones[i] /\ ~dones[j]
        /\ last_values[i] # 0 /\ last_values[j] # 0
        /\ ~mb_dones[n_step][i]
  /\ \E i \in Env : \E t \in 2..n_step : mb_dones[t][i]

\* The drawn column's next_nonterminal and next_value of row t.
PfNextNonterminal(t) ==
  IF t = n_step THEN 1 - B2I(pf_in.cur_done) ELSE 1 - B2I(pf_in.dones[t + 1])
PfNextValue(t) ==
  IF t = n_step THEN pf_in.last_value ELSE pf_in.values[t + 1]
PfNextReturn(t) ==
  IF t = n_step THEN pf_in.last_value ELSE pf_out.returns[t + 1][1]

\* C5: for every drawn batch, with lambda = 1 the returns satisfy
\* return[t] = reward[t] + gamma*next_nonterminal[t]*return[t+1], with
\* return[n_step] the bootstrap value; with lambda = 0 the advantage is the
\* single-step TD residual reward[t] + gamma*next_value[t]*next_nonterminal[t]
\* - value[t].
C5_GAELimits ==
  pf_pc = "gae_out" =>
    /\ pf_in.l = 1 =>
          \A t \in Steps :
            pf_out.returns[t][1] =
              pf_in.rewards[t] + pf_in.g * PfNextNonterminal(t) * PfNextReturn(t)
    /\ pf_in.l = 0 =>
          \A t \in Steps :
            pf_out.advs[t][1] =
              pf_in.rewards[t] + pf_in.g * PfNextValue(t) * PfNextNonterminal(t)
                - pf_in.values[t]

\* C5 witness: lambda = 1, gamma > 1, a nonzero bootstrap value, a done flag
\* recorded in the last row and a nonzero advantage in that row.
C5_Witness ==
  /\ pf_pc = "gae_out"
  /\ pf_in.l = 1 /\ pf_in.g > 1
  /\ pf_in.last_value # 0 /\ ~pf_in.cur_done
  /\ n_step > 1 /\ pf_in.dones[n_step]
  /\ pf_out.advs[n_step][1] # 0
  /\ pf_in.rewards[1] # 0

\* The pushes of the last record(), as sequences.
PushedRewards == [k \in 1..Len(push_log) |-> push_log[k].r]
PushedLens == [k \in 1..Len(push_log) |-> push_log[k].l]

\* The windows end with the pushes of the last record(), in the order made.
WindowsEndWith(pr, pl) ==
  /\ Len(reward_buf) >= Len(pr)
  /\ Len(len_buf) >= Len(pl)
  /\ \A k \in 1..Len(pr) : reward_buf[Len(reward_buf) - Len(pr) + k] = pr[k]
  /\ \A k \in 1..Len(pl) : len_buf[Len(len_buf) - Len(pl) + k] = pl[k]

\* C6: when the env.step of step t ends the episode of environment i with
\* reward r_end and the env.step of step t+1 of the same batch returns r_new,
\* record() pushes, while processing step t+1, the running total that
\* includes r_end (and the length that counts step t), the pushed pair is in
\* the windows, and right after processing step t+1 the running total of i is
\* r_new and its running length is 1.
C6_CarryForward ==
  rec_trace # <<>> =>
    \A i \in Env : \A t \in 1..(n_step - 1) :
      EnvCall(t).ret.dones[i] =>
        LET r_end == EnvCall(t).ret.rewards[i]
            r_new == EnvCall(t + 1).ret.rewards[i]
            tot == IF mb_dones[t][i] THEN 0 ELSE rec_trace[i][t - 1].total
            len == IF mb_dones[t][i] THEN 0 ELSE rec_trace[i][t - 1].len
            at == {k \in 1..Len(push_log) : push_log[k].env = i /\ push_log[k].t = t + 1}
        IN /\ Cardinality(at) = 1
           /\ \A k \in at : push_log[k].r = tot + r_end /\ push_log[k].l = len + 1
           /\ WindowsEndWith(PushedRewards, PushedLens)
           /\ rec_trace[i][t + 1] = [total |-> r_new, len |-> 1]

\* C6 witness: after record(), an episode that had accumulated reward before
\* step t ended at step t with a nonzero reward and was followed in the same
\* batch by a nonzero first reward of the next episode.
C6_Witness ==
  /\ rec_trace # <<>>
  /\ \E i \in Env : \E t \in 1..(n_step - 1) :
        /\ EnvCall(t).ret.dones[i]
        /\ ~mb_dones[t][i]
        /\ rec_trace[i][t - 1].total # 0
        /\ EnvCall(t).ret.rewards[i] # 0
        /\ EnvCall(t + 1).ret.rewards[i] # 0
        /\ EnvCall(t + 1).ret.rewards[i] # EnvCall(t).ret.rewards[i]

Max(a, b) == IF a > b THEN a ELSE b

\* The last BufMaxLen entries of q followed by the pushes p.
LastOf(q, p) ==
  LET all == q \o p
  IN SubSeq(all, Max(0, Len(all) - BufMaxLen) + 1, Len(all))

\* C7: each window holds at most 100 entries at all times; a record() leaves
\* in each window the last 100 of its former entries followed by the pushes,
\* in order, so that every push into a full window evicts exactly the oldest
\* entry; nothing else changes the windows.
C7_BoundedFifo ==
  [][ /\ Len(reward_buf') <= BufMaxLen
      /\ Len(len_buf') <= BufMaxLen
      /\ (pc = "finish") =>
            /\ reward_buf' = LastOf(reward_buf, PushedRewards')
            /\ len_buf' = LastOf(len_buf, PushedLens')
            /\ Len(push_log') =
                 Cardinality({c \in Steps \X Env : mb_dones[c[1]][c[2]]})
      /\ (pc # "finish") => UNCHANGED <<reward_buf, len_buf>> ]_vars

\* C7 witness: more than 100 done flags have been recorded and processed, the
\* windows are full, and the last record() pushed into them.
C7_Witness ==
  /\ pc = "idle"
  /\ n_done_rec > BufMaxLen
  /\ Len(reward_buf) = BufMaxLen
  /\ Len(len_buf) = BufMaxLen
  /\ Len(push_log) > 0
  /\ \E k \in 1..(BufMaxLen - 1) : reward_buf[k] # reward_buf[k + 1]

\* The done cells of the batch are exactly the cells pushed, once each.
PushedCellsAreDoneCells ==
  /\ {<<push_log[k].t, push_log[k].env>> : k \in 1..Len(push_log)} =
       {c \in Steps \X Env : mb_dones[c[1]][c[2]]}
  /\ Len(push_log) = Cardinality({c \in Steps \X Env : mb_dones[c[1]][c[2]]})

\* C8 (as claimed): of two done cells of a batch, the one with the smaller
\* timestep is pushed first, whatever their environments.
C8_AsClaimed ==
  rec_trace # <<>> =>
    \A a, b \in 1..Len(push_log) : push_log[a].t < push_log[b].t => a < b

\* C8 (amended): record() processes the cells environment by environment, each
\* environment's rows in time order: of two done cells of a batch, the one of
\* the environment with the smaller index is pushed first, and of two cells of
\* one environment the one with the smaller timestep; the windows end with
\* the pushes in that order.
C8_EnvMajorOrder ==
  rec_trace # <<>> =>
    /\ PushedCellsAreDoneCells
    /\ \A a, b \in 1..Len(push_log) :
          (\/ push_log[a].env < push_log[b].env
           \/ (push_log[a].env = push_log[b].env /\ push_log[a].t < push_log[b].t))
            => a < b
    /\ WindowsEndWith(PushedRewards, PushedLens)

\* C8 witness: a batch in which a lower-indexed environment has a done cell at
\* a later row than a higher-indexed one, and is pushed first.
C8_Witness ==
  /\ rec_trace # <<>>
  /\ \E a, b \in 1..Len(push_log) :
        /\ a < b
        /\ push_log[a].env < push_log[b].env
        /\ push_log[a].t > push_log[b].t
        /\ push_log[a].r # push_log[b].r

\* The sum of a window, from its newest entry to its oldest.
RECURSIVE WindowTotal(_, _)
WindowTotal(buf, k) == IF k = 0 THEN 0 ELSE buf[k] + WindowTotal(buf, k - 1)

\* m is the arithmetic mean of the entries of the non-empty window buf.
IsMeanOf(m, buf) ==
  /\ m.den > 0
  /\ m.num * Len(buf) = m.den * WindowTotal(buf, Len(buf))

\* C9: get_performance() returns (0, 0) whenever the windows are empty and
\* otherwise the arithmetic means of the entries of the reward window and of
\* the length window, and leaves windows and running accumulators unchanged.
C9_GetPerformance ==
  [][ ret'.fn = "get_performance" =>
        /\ Len(reward_buf) = 0 => ret'.val[1] = Zero
        /\ Len(len_buf) = 0 => ret'.val[2] = Zero
        /\ Len(reward_buf) > 0 => IsMeanOf(ret'.val[1], reward_buf)
        /\ Len(len_buf) > 0 => IsMeanOf(ret'.val[2], len_buf)
        /\ UNCHANGED <<reward_buf, len_buf, total_rewards, total_len>> ]_vars

\* C9 witness: get_performance() has returned with several episodes of
\* different total reward in the windows.
C9_Witness ==
  /\ ret.fn = "get_performance"
  /\ Len(reward_buf) >= 2
  /\ reward_buf[1] # reward_buf[2]
  /\ ret.val[1].num = reward_buf[1] + WindowTotal(Tail(reward_buf), Len(reward_buf) - 1)
  /\ ret.val[2].den = Len(len_buf)

RECURSIVE Pow(_, _)
Pow(b, e) == IF e = 0 THEN 1 ELSE b * Pow(b, e - 1)

RECURSIVE PowerSum(_, _, _, _)
PowerSum(rewards, g, t, k) ==
  IF t + k > Len(rewards) THEN 0
  ELSE Pow(g, k) * rewards[t + k] + PowerSum(rewards, g, t, k + 1)

\* C10: the Vector-Runner's returns satisfy return[t] = reward[t] +
\* gamma*return[t+1]*(1 - done[t]) for every row, return[n_step] being the
\* bootstrap value masked to zero where the final step was terminal; with no
\* termination within the horizon and a zero bootstrap value they are the sums
\* over k = 0..n_step-1-t of gamma^k * reward[t+k].
C10_DiscountedReturn ==
  pf_pc = "vec_out" =>
    LET boot == pf_in.last_value * (1 - B2I(pf_in.final_done))
        next(t) == IF t = n_step THEN boot ELSE pf_out.returns[t + 1]
    IN /\ \A t \in Steps :
             pf_out.returns[t] =
               pf_in.rewards[t] + pf_in.g * next(t) * (1 - B2I(pf_in.dones[t]))
       /\ ((\A t \in Steps : ~pf_in.dones[t]) /\ boot = 0) =>
             \A t \in Steps : pf_out.returns[t] = PowerSum(pf_in.rewards, pf_in.g, t, 0)

\* C10 witness: no termination, bootstrap value masked to zero, gamma > 1 and
\* nonzero rewards in the first and the last row.
C10_Witness ==
  /\ pf_pc = "vec_out"
  /\ \A t \in Steps : ~pf_in.dones[t]
  /\ pf_in.final_done /\ pf_in.last_value # 0
  /\ pf_in.g > 1
  /\ pf_in.rewards[1] # 0 /\ pf_in.rewards[n_step] # 0
  /\ pf_out.returns[1] > pf_in.rewards[1]

\* The collaborator call that is k-th in a run().
CallName(k) ==
  IF k = 2 * n_step + 1 THEN "policy.value_step"
  ELSE IF k % 2 = 1 THEN "policy.step" ELSE "env.step"

\* The number of collaborator calls run() has made at its current position.
CallsMade ==
  IF pc = "idle" THEN 2 * n_step + 1
  ELSE IF pc = "env" THEN 2 * Len(mb_rewards) + 1
  ELSE 2 * Len(mb_rewards)

\* obs is the stack given to the policy.step of row t after the frame the
\* env.step of row t returned has been inserted.
InsertedAfter(t, obs) ==
  \A i \in Env :
    /\ \A c \in 1..c_dim : obs[i][LastFrameBase + c] = EnvCall(t).ret.obs[i][c]
    /\ \A k \in 1..LastFrameBase :
          obs[i][k] = IF EnvCall(t).ret.dones[i] THEN 0 ELSE PolicyCall(t).arg[i][k + c_dim]

\* C11: env.reset is called once, in the constructor, and never inside run();
\* the calls of a run() are policy.step and env.step in strict alternation,
\* n_step of each, then one policy.value_step; the t-th env.step is given the
\* actions the t-th policy.step returned; the observation given to the next
\* policy.step, and to value_step after the last step, is the stacked buffer
\* with the frame of the t-th env.step inserted.
C11_CallProtocol ==
  /\ n_reset = 1
  /\ runs = 0 => (Len(calls) = 1 /\ calls[1].fn = "env.reset")
  /\ runs > 0 =>
        /\ Len(calls) = CallsMade
        /\ \A k \in 1..Len(calls) : calls[k].fn = CallName(k)
        /\ \A t \in Steps :
              /\ 2 * t <= Len(calls) => EnvCall(t).arg = PolicyCall(t).ret.actions
              /\ 2 * t + 1 <= Len(calls) => InsertedAfter(t, calls[2 * t + 1].arg)
              /\ (2 * t = Len(calls)) => InsertedAfter(t, stacked_obs)

\* C11 witness: a second run() has returned after all its 2*n_step + 1 calls,
\* its last env.step having ended the episode of one environment and not of
\* another.
C11_Witness ==
  /\ runs >= 2
  /\ pc = "idle"
  /\ Len(calls) = 2 * n_step + 1
  /\ calls[2 * n_step + 1].fn = "policy.value_step"
  /\ \E i, j \in Env :
        /\ EnvCall(n_step).ret.dones[i]
        /\ ~EnvCall(n_step).ret.dones[j]
        /\ \A k \in Channels : calls[2 * n_step + 1].arg[j][k] # 0

\* Channel group s (0 .. n_stack-1) of one environment's stack.
Group(st, s) == [c \in 1..c_dim |-> st[s * c_dim + c]]

ZeroFrame == [c \in 1..c_dim |-> 0]

\* A frame that no environment returns.
ProbeFrame == [i \in Env |-> [c \in 1..c_dim |-> MaxPixel + c + i]]

\* C12: update_stacked_obs moves every channel group s+1 to group s, drops
\* the former group 0 and writes the new frame into group n_stack-1, the
\* buffer keeping its size; and in every reachable state, for every
\* environment, group n_stack-1-d holds the frame received d steps ago if
\* that frame belongs to the current episode (or is the reset frame), and is
\* all-zero otherwise.
C12_SlidingWindow ==
  \A i \in Env :
    /\ DOMAIN stacked_obs[i] = Channels
    /\ \A d \in 0..(n_stack - 1) :
          Group(stacked_obs[i], n_stack - 1 - d) =
            IF d <= env_t[i] THEN EnvFrame(i, env_ep[i], env_t[i] - d) ELSE ZeroFrame
    /\ LET upd == UpdateStackedObs(stacked_obs, ProbeFrame)
       IN /\ DOMAIN upd[i] = Channels
          /\ \A g \in 0..(n_stack - 2) : Group(upd[i], g) = Group(stacked_obs[i], g + 1)
          /\ Group(upd[i], n_stack - 1) = ProbeFrame[i]

\* C12 witness: one environment's stack is full of frames of its current
\* episode, the oldest two different, while another environment, in a later
\* episode, has a zero oldest group.
C12_Witness ==
  \E i, j \in Env :
    /\ env_t[i] >= n_stack - 1
    /\ Group(stacked_obs[i], 0) # Group(stacked_obs[i], 1)
    /\ Group(stacked_obs[i], 0) # ZeroFrame
    /\ env_ep[j] > 1
    /\ env_t[j] < n_stack - 1
    /\ Group(stacked_obs[j], 0) = ZeroFrame

\* The env.step of row t reported done for environment i.
StepDone(t, i) == EnvCall(t).ret.dones[i]

\* The rows after row u of environment i's column raised by one.
Perturb(rows, i, u) ==
  [k \in 1..Len(rows) |-> IF k > u THEN [rows[k] EXCEPT ![i] = @ + 1] ELSE rows[k]]

\* The advantage of row t written with the data up to the first termination
\* at or after t only.
RECURSIVE TruncAdv(_, _)
TruncAdv(t, i) ==
  IF StepDone(t, i) THEN mb_rewards[t][i] - mb_values[t][i]
  ELSE IF t = n_step
    THEN mb_rewards[t][i] + gamma * last_values[i] - mb_values[t][i]
    ELSE mb_rewards[t][i] + gamma * mb_values[t + 1][i] - mb_values[t][i]
           + gamma * lamb * TruncAdv(t + 1, i)

\* C13: after run(), if the env.step of row t reported done for environment
\* i then advantage[t] = reward[t] - value[t] and return[t] = reward[t]; and
\* the advantage and return of any row t are those computed from the data up
\* to the first termination at or after t, unchanged when every reward and
\* value of a later row, and the bootstrap value, are replaced by others.
C13_NoLeakAcrossEpisodes ==
  Len(mb_advs) = n_step =>
    \A i \in Env : \A t \in Steps :
      /\ StepDone(t, i) =>
            /\ mb_advs[t][i] = mb_rewards[t][i] - mb_values[t][i]
            /\ mb_returns[t][i] = mb_rewards[t][i]
      /\ mb_advs[t][i] = TruncAdv(t, i)
      /\ mb_returns[t][i] = TruncAdv(t, i) + mb_values[t][i]
      /\ \A u \in t..n_step :
            StepDone(u, i) =>
              LET advs2 == GAE(Env, Perturb(mb_rewards, i, u), Perturb(mb_values, i, u),
                               mb_dones, dones,
                               [last_values EXCEPT ![i] = @ + 1], gamma, lamb)
              IN /\ advs2[t][i] = mb_advs[t][i]
                 /\ Returns(Env, advs2, Perturb(mb_values, i, u))[t][i] = mb_returns[t][i]

\* C13 witness: a finished run() in which one environment's episode ended at
\* the first row, with a nonzero reward and value in the row after it, and
\* another's ended at the last row only, with a nonzero bootstrap value.
C13_Witness ==
  /\ Len(mb_advs) = n_step
  /\ pc = "idle"
  /\ \E i, j \in Env :
        /\ StepDone(1, i)
        /\ mb_rewards[2][i] # 0
        /\ mb_values[2][i] # 0
        /\ ~StepDone(1, j)
        /\ StepDone(n_step, j)
        /\ last_values[j] # 0
        /\ mb_values[n_step][j] # 0

\* The (reward, length) pairs pushed for environment i since construction,
\* in the order they were pushed.
PushesOf(i) ==
  LET mine == SelectSeq(push_all, LAMBDA e : e.env = i)
  IN [k \in 1..Len(mine) |-> [r |-> mine[k].r, l |-> mine[k].l]]

\* The number of episodes of environment i that ended in the env.step calls
\* the current run() has made so far.
EndedThisRun(i) ==
  IF pc = "idle" THEN 0
  ELSE SeqSum([t \in 1..Len(mb_rewards) |-> B2I(StepDone(t, i))])

\* C14: every pair pushed to the windows is the sum of all rewards of one
\* finished episode of one environment, from its first step through its done
\* step inclusive, and the number of env.step calls of that episode; the
\* episodes of an environment are pushed in order, each exactly once, also
\* when they span several run() calls, the one that ended on the last step
\* of a run() being still held in the accumulators.
C14_EpisodeTotals ==
  \A i \in Env :
    /\ Len(PushesOf(i)) = Len(ep_log[i]) - EndedThisRun(i)
                            - B2I(IF pc = "idle" THEN dones[i] ELSE dones0[i])
    /\ \A k \in 1..Len(PushesOf(i)) : PushesOf(i)[k] = ep_log[i][k]
    /\ pc = "idle" =>
          [r |-> total_rewards[i], l |-> total_len[i]] =
            IF dones[i] THEN ep_log[i][Len(ep_log[i])] ELSE ep_cur[i]

\* C14 witness: after a run(), an episode longer than one run() has been
\* pushed with a nonzero total, and another episode was pushed by a flag in
\* a row after the first.
C14_Witness ==
  /\ pc = "idle"
  /\ \E k \in 1..Len(push_all) :
        /\ push_all[k].l > n_step
        /\ push_all[k].r > 0
        /\ [r |-> push_all[k].r, l |-> push_all[k].l] \in
              {ep_log[push_all[k].env][m] : m \in 1..Len(ep_log[push_all[k].env])}
  /\ \E k \in 1..Len(push_all) : push_all[k].t > 1 /\ push_all[k].l <= n_step

\* The index in ep_log[i] of the episode of environment i that was running
\* when the current (or last) run() took its first step.
EpisodeAtRunStart(i) ==
  Len(ep_log[i]) - SeqSum([t \in 1..Len(mb_rewards) |-> B2I(StepDone(t, i))])

\* The pushes record() made for environment i in the last run().
RunPushesOf(i) == SelectSeq(push_log, LAMBDA e : e.env = i)

C15State ==
  /\ runs = 0 => \A i \in Env : dones[i] = FALSE
  /\ Len(mb_dones) >= 1 => mb_dones[1] = dones0
  /\ (runs > 0 /\ pc = "idle") =>
        \A i \in Env :
          /\ dones[i] = StepDone(n_step, i)
          /\ dones[i] => Len(PushesOf(i)) = Len(ep_log[i]) - 1
          /\ dones0[i] =>
                /\ Len(RunPushesOf(i)) >= 1
                /\ RunPushesOf(i)[1].t = 1
                /\ RunPushesOf(i)[1].r = ep_log[i][EpisodeAtRunStart(i)].r
                /\ RunPushesOf(i)[1].l = ep_log[i][EpisodeAtRunStart(i)].l
                /\ Len(PushesOf(i)) - Len(RunPushesOf(i)) = EpisodeAtRunStart(i) - 1

C15Step ==
  /\ (pc = "idle" /\ pc' = "policy") => (dones0' = dones /\ dones' = dones)
  /\ (pc = "idle" /\ pc' = "idle") => dones' = dones
  /\ pc = "policy" => mb_dones' = Append(mb_dones, dones)
  /\ pc = "finish" => dones' = dones

\* C15: the done flags are kept between run() calls: they are all False
\* before the first run(), nothing but env.step changes them, and the flags
\* of the last env.step of one run() are the first row of the done batch of
\* the next; so an episode that ends on the last step of a run() is pushed
\* to the windows by the first row of the following run() and not before,
\* and stays out of them when no further run() is made.
C15_FlagsPersist == []C15State /\ [][C15Step]_vars

\* C15 witness: the last allowed run() has returned; one environment's
\* episode had ended on the last step of the run() before and was pushed by
\* row 1 of this one, and another's ended on the last step of this run() and
\* is in no window.
C15_Witness ==
  /\ pc = "idle"
  /\ runs = run_cap
  /\ runs >= 2
  /\ \E i, j \in Env :
        /\ dones0[i]
        /\ mb_dones[1][i]
        /\ Len(RunPushesOf(i)) >= 1
        /\ RunPushesOf(i)[1].l >= 1
        /\ dones[j]
        /\ Len(PushesOf(j)) < Len(ep_log[j])

Min(a, b) == IF a < b THEN a ELSE b

\* The done flags appended to the batch of a run() that record() has not
\* been given yet.
FlagsPending ==
  IF pc = "idle" THEN 0
  ELSE Cardinality({c \in (1..Len(mb_dones)) \X Env : mb_dones[c[1]][c[2]]})

\* The episode that the m-th push since construction completed.
EpisodeOfPush(m) ==
  LET e == push_all[m].env
  IN ep_log[e][Cardinality({m2 \in 1..m : push_all[m2].env = e})]

C16State ==
  /\ Len(reward_buf) = Len(len_buf)
  /\ Len(push_all) = n_done_rec - FlagsPending
  /\ Len(reward_buf) = Min(BufMaxLen, n_done_rec - FlagsPending)
  /\ \A k \in 1..Len(reward_buf) :
        LET m == Len(push_all) - Len(reward_buf) + k
        IN /\ reward_buf[k] = EpisodeOfPush(m).r
           /\ len_buf[k] = EpisodeOfPush(m).l
  /\ Len(RecordCells) = n_env * n_step
  /\ {RecordCells[k] : k \in 1..Len(RecordCells)} = Env \X Steps

C16Step ==
  pc = "finish" =>
    /\ SeqSum(total_len') + SeqSum(PushedLens') = SeqSum(total_len) + n_env * n_step
    /\ \A i \in Env : \A j \in Steps :
          rec_trace'[i][j].len = IF mb_dones[j][i] THEN 1 ELSE rec_trace'[i][j - 1].len + 1

\* C16: the two windows always have the same number of entries, their k-th
\* entries are the total reward and the length of the same completed
\* episode, and that number is min(100, number of done flags recorded and
\* given to record() so far); every record() processes each of the
\* n_env * n_step cells once and raises the sum of the running lengths plus
\* the lengths it pushed by exactly n_env * n_step.
C16_WindowsPaired == []C16State /\ [][C16Step]_vars

\* C16 witness: the windows are full after more than 100 done flags, the
\* last record() pushed several episodes, and the windows hold episodes of
\* different lengths and of more than one environment.
C16_Witness ==
  /\ pc = "idle"
  /\ Len(push_all) > BufMaxLen
  /\ Len(len_buf) = BufMaxLen
  /\ Len(push_log) >= 2
  /\ \E k \in 1..(BufMaxLen - 1) : len_buf[k] # len_buf[k + 1]
  /\ \E m1, m2 \in (Len(push_all) - BufMaxLen + 1)..Len(push_all) :
        push_all[m1].env # push_all[m2].env

====
